---- MODULE Spec2Model ----
(***************************************************************************)
(* A state-machine model of the Paris address-details API                  *)
(* (addressDetailsApi/paris: views.py, utils.py, urls.py).                 *)
(*                                                                         *)
(* One request (or one direct call of a utility function) is in progress   *)
(* at a time; `op` names it and `pc` is its position.  Every upstream HTTP *)
(* call is one step whose outcome is drawn from a bounded set of outcomes, *)
(* and is appended to `calls`.  Python values are tagged records so that   *)
(* None, integers and strings can be told apart and compared.              *)
(***************************************************************************)
EXTENDS Integers, Sequences, FiniteSets, TLC

VARIABLES
    op,                   \* the handler or function being executed
    pc,                   \* its position
    args,                 \* its arguments
    calls,                \* the upstream HTTP calls issued so far, in order
    response,             \* the HTTP response of a handler
    ret,                  \* the return value (or exception) of a direct call
    lat_val, lon_val,     \* get_planning_permits locals
    permits_data,
    parcel_data,
    cadastral_parcel_id,
    cadastral_parcel_id_list, \* get_building_data_by_cadastral_parcel_id locals
    idx,
    grouped_buildings,
    fetched               \* the features the per-identifier queries returned so far

vars == <<op, pc, args, calls, response, ret, lat_val, lon_val, permits_data,
          parcel_data, cadastral_parcel_id, cadastral_parcel_id_list, idx,
          grouped_buildings, fetched>>

(***************************************************************************)
(* Bounds of the model.                                                    *)
(***************************************************************************)
MaxStrLen == 1        \* longest lat / lon path segment
MaxNameLen == 3       \* longest street name
MaxFeatures == 2      \* longest feature list of an upstream body or footprint file
MaxParcels == 2       \* longest feature list of the parcel file
MaxIds == 2           \* largest n_sq_pc identifier
MaxDistrict == 20     \* largest arrondissement number requested

(***************************************************************************)
(* Python values.                                                          *)
(***************************************************************************)
PyNone == [t |-> "none", i |-> 0, s |-> ""]
PyInt(n) == [t |-> "int", i |-> n, s |-> ""]
PyStr(x) == [t |-> "str", i |-> 0, s |-> x]

\* bool(v): None, 0 and "" are falsy.
Truthy(v) ==
    CASE v.t = "none" -> FALSE
      [] v.t = "int" -> v.i # 0
      [] OTHER -> v.s # ""

\* str(v)
Str(v) ==
    CASE v.t = "none" -> "None"
      [] v.t = "int" -> ToString(v.i)
      [] OTHER -> v.s

\* A formatted message: a template and the text substituted into it.
Msg(text, arg) == [text |-> text, arg |-> arg]

RECURSIVE Join(_)
Join(s) == IF s = <<>> THEN "" ELSE Head(s) \o Join(Tail(s))

\* What a called function does: return a value or raise an exception.
Return(v) == [raised |-> FALSE, exc |-> "", msg |-> Msg("", ""), val |-> v]
Raise(exc, msg) == [raised |-> TRUE, exc |-> exc, msg |-> msg, val |-> PyNone]

(***************************************************************************)
(* Upstream HTTP: requests.get, raise_for_status and json() end in a       *)
(* transport failure, a non-2xx status (both RequestException) or a body.  *)
(***************************************************************************)
Transport == [kind |-> "transport", body |-> PyNone]
HttpError == [kind |-> "http", body |-> PyNone]
Ok(body) == [kind |-> "ok", body |-> body]
Failures == {Transport, HttpError}

\* str(e) of the RequestException
ErrStr(outcome) ==
    IF outcome.kind = "transport" THEN "ConnectionError" ELSE "HTTPError"

\* All sequences over S of length lo..hi
SeqsUpTo(S, lo, hi) == UNION {[1..k -> S] : k \in lo..hi}

(***************************************************************************)
(* get_float_value: float(value) if value else None.                       *)
(* A path segment is a non-empty sequence of characters.  float() accepts  *)
(* digits with at most one dot and at least one digit ("4", "4.", ".4");   *)
(* anything else raises ValueError naming the text.                        *)
(***************************************************************************)
Chars == {"4", ".", "x"}
Digits == {"0", "1", "2", "3", "4", "5", "6", "7", "8", "9"}

DigitVal(c) ==
    CASE c = "0" -> 0 [] c = "1" -> 1 [] c = "2" -> 2 [] c = "3" -> 3
      [] c = "4" -> 4 [] c = "5" -> 5 [] c = "6" -> 6 [] c = "7" -> 7
      [] c = "8" -> 8 [] OTHER -> 9

\* The segments the URL pattern <str:lat>/<str:lon> can deliver: non-empty.
PathSegments == SeqsUpTo(Chars, 1, MaxStrLen)

IsFloatLiteral(s) ==
    /\ \A k \in 1..Len(s) : s[k] \in Digits \/ s[k] = "."
    /\ Cardinality({k \in 1..Len(s) : s[k] = "."}) <= 1
    /\ \E k \in 1..Len(s) : s[k] \in Digits

RECURSIVE DigitsValue(_)
DigitsValue(s) ==
    IF s = <<>> THEN 0
    ELSE IF s[Len(s)] = "." THEN DigitsValue(SubSeq(s, 1, Len(s) - 1))
    ELSE 10 * DigitsValue(SubSeq(s, 1, Len(s) - 1)) + DigitVal(s[Len(s)])

\* Number of digits after the dot
Scale(s) ==
    IF \E k \in 1..Len(s) : s[k] = "."
    THEN Len(s) - (CHOOSE k \in 1..Len(s) : s[k] = ".")
    ELSE 0

RECURSIVE Normalise(_, _)
Normalise(num, scale) ==
    IF scale > 0 /\ num % 10 = 0 THEN Normalise(num \div 10, scale - 1)
    ELSE [t |-> "float", num |-> num, scale |-> scale]

NoFloat == [t |-> "none", num |-> 0, scale |-> 0]

\* float(s): the number num / 10^scale
Float(s) ==
    IF IsFloatLiteral(s)
    THEN [raised |-> FALSE, exc |-> "", msg |-> Msg("", ""),
          val |-> Normalise(DigitsValue(s), Scale(s))]
    ELSE [raised |-> TRUE, exc |-> "ValueError",
          msg |-> Msg("could not convert string to float: %r", Join(s)),
          val |-> NoFloat]

get_float_value(value) ==
    IF value # <<>> THEN Float(value)
    ELSE [raised |-> FALSE, exc |-> "", msg |-> Msg("", ""), val |-> NoFloat]

(***************************************************************************)
(* HTTP responses of the handlers.                                         *)
(***************************************************************************)
HTTP_200_OK == 200
HTTP_400_BAD_REQUEST == 400
HTTP_404_NOT_FOUND == 404
HTTP_500_INTERNAL_SERVER_ERROR == 500

NoResponse == [status |-> 0, kind |-> "none", body |-> PyNone]
\* Response(<dict>, status)
Response(body, status) == [status |-> status, kind |-> "object", body |-> body]
\* Response(<list>, status)
ResponseList(body, status) == [status |-> status, kind |-> "array", body |-> body]

(***************************************************************************)
(* fetch_permits_data: the permits API body, or an error dict.            *)
(***************************************************************************)
PermitsJson == [total_count |-> PyInt(1)]
PermitsOutcomes == Failures \cup {Ok(PermitsJson)}

fetch_permits_data(outcome) ==
    IF outcome.kind = "ok" THEN outcome.body
    ELSE [error |-> Msg("Failed to fetch permits: %s", ErrStr(outcome))]

(***************************************************************************)
(* get_parcel_data: the reverse-geocoding body and the id of its nearest   *)
(* feature.  A feature is a dict with properties.distance and              *)
(* properties.id; PyNone stands for a missing (or null) member.  Distances *)
(* are in tenths (41 is 4.1); a distance given as a string makes the       *)
(* comparison raise TypeError.                                             *)
(***************************************************************************)
Distances == {PyNone, PyInt(41), PyInt(90)}
ParcelIds == {PyStr("P1"), PyStr("P2")}
Located(distance, id) == [properties |-> [distance |-> distance, id |-> id]]
ReverseFeatures ==
    {Located(d, id) : d \in Distances, id \in ParcelIds}
        \cup {Located(PyStr("4.1"), PyStr("P1"))}
ReverseBodies ==
    {<<>>, [type |-> PyStr("FeatureCollection")]}
        \cup {[type |-> PyStr("FeatureCollection"), features |-> fs] :
                fs \in SeqsUpTo(ReverseFeatures, 0, MaxFeatures)}
ReverseOutcomes == Failures \cup {Ok(b) : b \in ReverseBodies}

\* closest_distance: float("inf") or a distance seen
Infinity == [inf |-> TRUE, v |-> 0]
Finite(v) == [inf |-> FALSE, v |-> v]
\* A scan in which a later feature at the same distance replaces the earlier
LessThan_OrEqual(distance, closest) == closest.inf \/ distance.i <= closest.v

\* distance < closest_distance
LessThan(distance, closest) == closest.inf \/ distance.i < closest.v

\* The loop of get_parcel_data from feature k on.
RECURSIVE ScanFeatures(_, _, _, _)
ScanFeatures(features, k, closest_distance, parcel_id) ==
    IF k > Len(features) THEN Return(parcel_id)
    ELSE LET distance == features[k].properties.distance IN
         IF distance.t = "none"
         THEN ScanFeatures(features, k + 1, closest_distance, parcel_id)
         ELSE IF distance.t # "int"
         THEN Raise("TypeError", Msg("'<' not supported between instances", ""))
         ELSE IF LessThan(distance, closest_distance)
         THEN ScanFeatures(features, k + 1, Finite(distance.i),
                           features[k].properties.id)
         ELSE ScanFeatures(features, k + 1, closest_distance, parcel_id)

get_parcel_data(outcome) ==
    IF outcome.kind # "ok"
    THEN Return([parcel_id |-> PyNone,
                 parcel_data |->
                     [error |-> Msg("Failed to fetch parcel data: %s", ErrStr(outcome))]])
    ELSE LET body == outcome.body IN
         IF DOMAIN body = {} \/ "features" \notin DOMAIN body
         THEN Return([parcel_id |-> PyNone, parcel_data |-> body])
         ELSE LET scan == ScanFeatures(body.features, 1, Infinity, PyNone) IN
              IF scan.raised THEN scan
              ELSE Return([parcel_id |-> scan.val, parcel_data |-> body])

(***************************************************************************)
(* fetch_parcel_by_id: linear search of the parcel file.  A feature's id   *)
(* is PyNone when the feature has no id member.                            *)
(***************************************************************************)
ParcelFeature(id, n) == [type |-> "Feature", id |-> id, properties |-> n]
ParcelFeatures ==
    {ParcelFeature(PyStr("P1"), 1), ParcelFeature(PyStr("P1"), 2),
     ParcelFeature(PyStr("P2"), 1), ParcelFeature(PyNone, 1)}
MissingFile == [exists |-> FALSE, features |-> <<>>]
File(features) == [exists |-> TRUE, features |-> features]
ParcelFiles ==
    {MissingFile} \cup {File(fs) : fs \in SeqsUpTo(ParcelFeatures, 0, MaxParcels)}

\* feature.get("id") == parcel_id
IdEquals(feature, parcel_id) == feature.id = parcel_id

RECURSIVE SearchParcel(_, _, _)
SearchParcel(features, k, parcel_id) ==
    IF k > Len(features)
    THEN [error |-> Msg("No matching parcel found for ID %s.", Str(parcel_id))]
    ELSE IF IdEquals(features[k], parcel_id) THEN features[k]
    ELSE SearchParcel(features, k + 1, parcel_id)

fetch_parcel_by_id(file, parcel_id) ==
    IF ~file.exists THEN [error |-> Msg("Cadastral data not found.", "")]
    ELSE SearchParcel(file.features, 1, parcel_id)

(***************************************************************************)
(* get_building_footprints: the first feature of the footprint file whose  *)
(* geometry intersects the point or the buffer around it.  `hit` records   *)
(* how the geometry lies: away from the buffer, touching the buffer only,  *)
(* or on the point itself (which lies inside the buffer).                  *)
(***************************************************************************)
Building(name, hit) == [name |-> name, hit |-> hit]
BuildingFeatures ==
    {Building(n, h) : n \in {"A", "B"}, h \in {"away", "buffer", "point"}}
BuildingFiles ==
    {MissingFile} \cup {File(fs) : fs \in SeqsUpTo(BuildingFeatures, 0, MaxFeatures)}

\* geometry.intersects(user_point)
IntersectsPoint(feature) == feature.hit = "point"
\* A locator without the buffered fallback
IntersectsBuffer_Exact(feature) == feature.hit = "point"

\* geometry.intersects(point_buffered)
IntersectsBuffer(feature) == feature.hit \in {"point", "buffer"}

NoBuilding == [name |-> "", hit |-> ""]

RECURSIVE FindBuilding(_, _)
FindBuilding(features, k) ==
    IF k > Len(features) THEN NoBuilding
    ELSE IF IntersectsPoint(features[k]) THEN features[k]
    ELSE IF IntersectsBuffer(features[k]) THEN features[k]
    ELSE FindBuilding(features, k + 1)

get_building_footprints(file) ==
    IF ~file.exists THEN [error |-> Msg("Building data not found.", "")]
    ELSE LET found_building == FindBuilding(file.features, 1) IN
         IF found_building # NoBuilding THEN found_building
         ELSE [error |-> Msg("No matching building found at this location.", "")]

(***************************************************************************)
(* get_construction_year.  An attribute dict is a record whose members may *)
(* be missing (PyMissing) or null (PyNone).                                *)
(***************************************************************************)
PyMissing == [t |-> "missing", i |-> 0, s |-> ""]

\* d.get(key)
Get(member) == IF member.t = "missing" THEN PyNone ELSE member
\* d.get(key, default)
GetDefault(member, default) == IF member.t = "missing" THEN default ELSE member

Attributes(an_const, c_perconst, n_sq_pc, Shape_Area) ==
    [an_const |-> an_const, c_perconst |-> c_perconst, n_sq_pc |-> n_sq_pc,
     Shape_Area |-> Shape_Area, Shape_Length |-> PyMissing, b_terrasse |-> PyMissing]
\* feature.get("attributes", {}) of a feature without attributes
NoAttributes == Attributes(PyMissing, PyMissing, PyMissing, PyMissing)

PeriodCodes == {1, 2, 3, 5, 6, 7, 8, 9, 10, 11, 12, 99}

period_mapping(code) ==
    CASE code = 1 -> "Before 1850"
      [] code = 2 -> "from 1801 to 1850"
      [] code = 3 -> "from 1851 to 1914"
      [] code = 5 -> "from 1915 to 1939"
      [] code = 6 -> "from 1940 to 1967"
      [] code = 7 -> "from 1968 to 1975"
      [] code = 8 -> "from 1976 to 1981"
      [] code = 9 -> "from 1982 to 1989"
      [] code = 10 -> "from 1990 to 1999"
      [] code = 11 -> "2000 and up"
      [] code = 12 -> "2008 and up"
      [] OTHER -> "Year Unknown"

\* A test for presence alone: if year is not None
YearGiven_NotNone(year) == year.t # "none"

\* if year: the test that decides whether an_const is used
YearGiven(year) == Truthy(year)

get_construction_year(attributes) ==
    LET year == Get(attributes.an_const)
        code == Get(attributes.c_perconst)
    IN IF YearGiven(year) THEN Str(year)
       ELSE IF code.t = "int" /\ code.i \in PeriodCodes THEN period_mapping(code.i)
       ELSE "Year Unknown"

(***************************************************************************)
(* get_cadastral_parcel_id: the bounding-box query of the footprint        *)
(* service and the distinct n_sq_pc values of its features, in the order   *)
(* list(set(...)) happens to give.  The result is a list or an error dict. *)
(***************************************************************************)
Identifiers == {PyInt(n) : n \in 1..MaxIds}
BoxFeature(has_attributes, n_sq_pc) ==
    [has_attributes |-> has_attributes, n_sq_pc |-> n_sq_pc]
BoxFeatures ==
    {BoxFeature(FALSE, PyNone), BoxFeature(TRUE, PyNone)}
        \cup {BoxFeature(TRUE, id) : id \in Identifiers}
BoxBodies ==
    {[error |-> PyStr("Invalid query")]}
        \cup {[features |-> fs] : fs \in SeqsUpTo(BoxFeatures, 0, MaxFeatures)}
BoxOutcomes == Failures \cup {Ok(b) : b \in BoxBodies}

ErrorDict(msg) == [t |-> "dict", error |-> msg, ids |-> <<>>]
IdList(ids) == [t |-> "list", error |-> Msg("", ""), ids |-> ids]
NoResult == [t |-> "none", error |-> Msg("", ""), ids |-> <<>>]

\* The n_sq_pc values the set comprehension collects
IdSet(features) ==
    {features[k].n_sq_pc : k \in {j \in 1..Len(features) :
        features[j].has_attributes /\ features[j].n_sq_pc.t # "none"}}

\* The orders in which list(set) can enumerate a set
Orderings(S) ==
    {q \in [1..Cardinality(S) -> S] : \A a, b \in 1..Cardinality(S) : q[a] = q[b] => a = b}

get_cadastral_parcel_id(outcome, order) ==
    IF outcome.kind # "ok"
    THEN ErrorDict(Msg("API request failed: %s", ErrStr(outcome)))
    ELSE LET data == outcome.body IN
         IF "features" \notin DOMAIN data \/ Len(data.features) = 0
         THEN ErrorDict(Msg("No buildings found at this location.", ""))
         ELSE IdList(order)

\* A handler that goes on to the identifier loop whatever the lookup returned
IsInstanceInt_Dropped(value) == TRUE

\* isinstance(cadastral_parcel_id, int)
IsInstanceInt(value) == value.t = "int"

\* What `for cadastral_parcel_id in value` iterates over: the elements of a
\* list, the keys of a dict.
Iterate(value) == IF value.t = "list" THEN value.ids ELSE <<PyStr("error")>>

(***************************************************************************)
(* get_building_data_by_cadastral_parcel_id: one query per identifier; the *)
(* features of each answer are summarised and grouped by construction      *)
(* year.  grouped_buildings is a dict in insertion order: a sequence of    *)
(* [year, buildings] entries.                                              *)
(***************************************************************************)
NotAvailable == PyStr("Not Available")

\* convert_coordinates_into_lat_lon: the WGS84 image of a Lambert-93 point
convert_coordinates_into_lat_lon(x, y) == [crs |-> "EPSG:4326", of |-> <<x, y>>]

ConvertRings(rings) ==
    [r \in DOMAIN rings |->
        [v \in DOMAIN rings[r] |->
            convert_coordinates_into_lat_lon(rings[r][v][1], rings[r][v][2])]]

EsriGeometry == [has_rings |-> TRUE, type |-> "esri",
                 rings |-> << << <<652, 6862>> >> >>, coordinates |-> <<>>]
OtherGeometry == [has_rings |-> FALSE, type |-> "Point",
                  rings |-> <<>>, coordinates |-> <<>>]
NoGeometry == [has_rings |-> FALSE, type |-> "", rings |-> <<>>, coordinates |-> <<>>]

BuildFeature(attributes, has_geometry, geometry) ==
    [attributes |-> attributes, has_geometry |-> has_geometry, geometry |-> geometry]
BuildFeatures ==
    {BuildFeature(Attributes(PyInt(1900), PyInt(7), PyInt(1), PyInt(10)), TRUE, EsriGeometry),
     BuildFeature(Attributes(PyMissing, PyInt(7), PyMissing, PyInt(20)), TRUE, OtherGeometry),
     BuildFeature(NoAttributes, FALSE, NoGeometry)}
BuildBodies ==
    {[error |-> PyStr("Invalid query")]}
        \cup {[features |-> fs] : fs \in SeqsUpTo(BuildFeatures, 0, MaxFeatures)}
BuildOutcomes == Failures \cup {Ok(b) : b \in BuildBodies}

\* The geometry of the feature after the conversion of its rings
ConvertedGeometry(feature) ==
    IF feature.has_geometry /\ feature.geometry.has_rings
    THEN [has_rings |-> FALSE, type |-> "Polygon", rings |-> <<>>,
          coordinates |-> ConvertRings(feature.geometry.rings)]
    ELSE feature.geometry

Summary(feature) ==
    [cadastral_parcel_id |-> GetDefault(feature.attributes.n_sq_pc, NotAvailable),
     Shape_Area |-> GetDefault(feature.attributes.Shape_Area, NotAvailable),
     Shape_Length |-> GetDefault(feature.attributes.Shape_Length, NotAvailable),
     b_terrasse |-> GetDefault(feature.attributes.b_terrasse, NotAvailable),
     geometry |-> ConvertedGeometry(feature)]

HasYear(grouped, year) == \E k \in 1..Len(grouped) : grouped[k].year = year

\* if year not in grouped_buildings: grouped_buildings[year] = []
WithYear(grouped, year) ==
    IF HasYear(grouped, year) THEN grouped
    ELSE Append(grouped, [year |-> year, buildings |-> <<>>])

\* grouped_buildings[year].append(summary)
AppendBuilding(grouped, year, summary) ==
    [k \in DOMAIN grouped |->
        IF grouped[k].year = year
        THEN [grouped[k] EXCEPT !.buildings = Append(@, summary)]
        ELSE grouped[k]]

\* The inner loop over data["features"] from feature k on; feature["geometry"]
\* of a feature without geometry raises KeyError.
RECURSIVE ProcessFeatures(_, _, _)
ProcessFeatures(features, k, grouped) ==
    IF k > Len(features) THEN [raised |-> FALSE, grouped |-> grouped]
    ELSE LET feature == features[k]
             year == get_construction_year(feature.attributes)
             keyed == WithYear(grouped, year)
         IN IF ~feature.has_geometry THEN [raised |-> TRUE, grouped |-> keyed]
            ELSE ProcessFeatures(features, k + 1,
                                 AppendBuilding(keyed, year, Summary(feature)))

\* Whether the except clause of the per-identifier query takes the outcome
IsRequestException(outcome) == outcome.kind # "ok"

\* An iteration without the except clause: the RequestException leaves the loop
Iteration_Propagates(outcome, grouped) ==
    IF IsRequestException(outcome) THEN [raised |-> TRUE, grouped |-> grouped]
    ELSE IF "features" \notin DOMAIN outcome.body \/ Len(outcome.body.features) = 0
    THEN [raised |-> FALSE, grouped |-> grouped]
    ELSE ProcessFeatures(outcome.body.features, 1, grouped)

\* One iteration of the outer loop on the outcome of its query
Iteration(outcome, grouped) ==
    IF IsRequestException(outcome) THEN [raised |-> FALSE, grouped |-> grouped]
    ELSE IF "features" \notin DOMAIN outcome.body \/ Len(outcome.body.features) = 0
    THEN [raised |-> FALSE, grouped |-> grouped]
    ELSE ProcessFeatures(outcome.body.features, 1, grouped)

\* The features a query outcome hands to the inner loop
Returned(outcome) ==
    IF outcome.kind = "ok" /\ "features" \in DOMAIN outcome.body
    THEN outcome.body.features ELSE <<>>

(***************************************************************************)
(* The state machine.                                                      *)
(***************************************************************************)
NoReturn == Return(PyNone)
\* An upstream call as logged: the API, what was asked, how it ended and,
\* for the footprint service, how many features the body carried.
Call(api, arg, outcome) ==
    [api |-> api, arg |-> arg, kind |-> outcome.kind,
     count |-> IF api \in {"footprints_bbox", "footprints_by_id"}
               THEN Len(Returned(outcome)) ELSE 0]

Init ==
    /\ op = "none"
    /\ pc = "idle"
    /\ args = <<>>
    /\ calls = <<>>
    /\ response = NoResponse
    /\ ret = NoReturn
    /\ lat_val = NoFloat
    /\ lon_val = NoFloat
    /\ permits_data = <<>>
    /\ parcel_data = <<>>
    /\ cadastral_parcel_id = NoResult
    /\ cadastral_parcel_id_list = <<>>
    /\ idx = 0
    /\ grouped_buildings = <<>>
    /\ fetched = <<>>

\* A request or call starts with fresh locals.  Requests share no state, so
\* a behaviour is one request or one call, from "idle" to "done".
Begin(name, a) ==
    /\ pc = "idle"
    /\ op' = name
    /\ args' = a
    /\ permits_data' = <<>>
    /\ parcel_data' = <<>>
    /\ cadastral_parcel_id' = NoResult
    /\ grouped_buildings' = <<>>
    /\ fetched' = <<>>

NoCoordinates == lat_val' = NoFloat /\ lon_val' = NoFloat
NoLoop == cadastral_parcel_id_list' = <<>> /\ idx' = 0

\* The except clauses of get_planning_permits and get_street_history:
\* ValueError, then LookupError (KeyError is one), then Exception.
ExceptionResponse(exc, msg) ==
    IF exc = "ValueError" THEN Response([error |-> msg], HTTP_400_BAD_REQUEST)
    ELSE IF exc \in {"LookupError", "KeyError"}
    THEN Response([error |-> msg], HTTP_404_NOT_FOUND)
    ELSE Response([error |-> Msg("An unexpected error occurred.", "")],
                  HTTP_500_INTERNAL_SERVER_ERROR)

\* get_planning_permits up to its first upstream call: the conversion of
\* lat and lon.
GetPlanningPermits(lat, lon) ==
    /\ Begin("get_planning_permits", [lat |-> lat, lon |-> lon])
    /\ NoLoop
    /\ calls' = <<>>
    /\ ret' = NoReturn
    /\ LET lat_r == get_float_value(lat)
           lon_r == get_float_value(lon)
           failed == IF lat_r.raised THEN lat_r ELSE lon_r
       IN IF failed.raised
          THEN /\ response' = ExceptionResponse(failed.exc, failed.msg)
               /\ pc' = "done"
               /\ lat_val' = lat_r.val
               /\ lon_val' = NoFloat
          ELSE /\ lat_val' = lat_r.val
               /\ lon_val' = lon_r.val
               /\ IF lat_r.val.t = "none" \/ lon_r.val.t = "none"
                  THEN /\ response' = ExceptionResponse("ValueError",
                                         Msg("Invalid latitude or longitude format.", ""))
                       /\ pc' = "done"
                  ELSE /\ response' = NoResponse
                       /\ pc' = "fetch_permits_data"

\* permits_data = fetch_permits_data(street_name, house_number)
FetchPermitsData(outcome) ==
    /\ op = "get_planning_permits" /\ pc = "fetch_permits_data"
    /\ permits_data' = fetch_permits_data(outcome)
    /\ calls' = Append(calls, Call("permits", "", outcome))
    /\ pc' = "get_parcel_data"
    /\ UNCHANGED <<op, args, response, ret, lat_val, lon_val, parcel_data,
                   cadastral_parcel_id, cadastral_parcel_id_list, idx,
                   grouped_buildings, fetched>>

\* parcel_data = get_parcel_data(lat_val, lon_val)
GetParcelData(outcome) ==
    /\ op = "get_planning_permits" /\ pc = "get_parcel_data"
    /\ calls' = Append(calls, Call("reverse", "", outcome))
    /\ LET r == get_parcel_data(outcome) IN
       IF r.raised
       THEN /\ response' = ExceptionResponse(r.exc, r.msg)
            /\ pc' = "done"
            /\ UNCHANGED parcel_data
       ELSE /\ parcel_data' = r.val
            /\ pc' = "fetch_parcel_by_id"
            /\ UNCHANGED response
    /\ UNCHANGED <<op, args, ret, lat_val, lon_val, permits_data,
                   cadastral_parcel_id, cadastral_parcel_id_list, idx,
                   grouped_buildings, fetched>>

\* parcel_data = fetch_parcel_by_id(parcel_data.get("parcel_id"))
FetchParcelById(file) ==
    /\ op = "get_planning_permits" /\ pc = "fetch_parcel_by_id"
    /\ parcel_data' = fetch_parcel_by_id(file, parcel_data.parcel_id)
    /\ pc' = "get_cadastral_parcel_id"
    /\ UNCHANGED <<op, args, calls, response, ret, lat_val, lon_val, permits_data,
                   cadastral_parcel_id, cadastral_parcel_id_list, idx,
                   grouped_buildings, fetched>>

\* The response or return value once the identifier loop has ended
Built(grouped) ==
    IF op = "get_planning_permits"
    THEN [response |-> Response([permits |-> permits_data,
                                 parcel_data |-> parcel_data,
                                 building_all_data |-> grouped], HTTP_200_OK),
          ret |-> NoReturn]
    ELSE [response |-> NoResponse, ret |-> Return(grouped)]

\* The response or exception once a feature without geometry raised KeyError
Aborted ==
    IF op = "get_planning_permits"
    THEN [response |-> ExceptionResponse("KeyError", Msg("'geometry'", "")),
          ret |-> NoReturn]
    ELSE [response |-> NoResponse, ret |-> Raise("KeyError", Msg("'geometry'", ""))]

\* cadastral_parcel_id = get_cadastral_parcel_id(lat_val, lon_val), the type
\* check on it, and the entry of get_building_data_by_cadastral_parcel_id up
\* to its first query.
GetCadastralParcelId(outcome, order) ==
    /\ op = "get_planning_permits" /\ pc = "get_cadastral_parcel_id"
    /\ calls' = Append(calls, Call("footprints_bbox", "", outcome))
    /\ LET result == get_cadastral_parcel_id(outcome, order) IN
       /\ cadastral_parcel_id' = result
       /\ IF ~IsInstanceInt(result)
          THEN /\ response' = ExceptionResponse("LookupError",
                                  Msg("No buildings found for this location.", ""))
               /\ pc' = "done"
               /\ UNCHANGED <<cadastral_parcel_id_list, idx>>
          ELSE /\ cadastral_parcel_id_list' = Iterate(result)
               /\ idx' = 1
               /\ IF Iterate(result) = <<>>
                  THEN response' = Built(<<>>).response /\ pc' = "done"
                  ELSE response' = NoResponse /\ pc' = "build_loop"
    /\ UNCHANGED <<op, args, ret, lat_val, lon_val, permits_data, parcel_data,
                   grouped_buildings, fetched>>

\* A loop that queries an identifier again after a failed request
NextIdentifier_Retry(i, outcome) == IF IsRequestException(outcome) THEN i ELSE i + 1

\* for cadastral_parcel_id in cadastral_parcel_id_list: the loop moves on to
\* the next identifier whatever the outcome of the query
NextIdentifier(i, outcome) == i + 1

\* One iteration of the loop of get_building_data_by_cadastral_parcel_id:
\* the query for identifier idx, the grouping of its features, and the
\* return when it was the last identifier.
QueryBuildings(outcome) ==
    /\ pc = "build_loop"
    /\ calls' = Append(calls, Call("footprints_by_id",
                                   Str(cadastral_parcel_id_list[idx]), outcome))
    /\ LET it == Iteration(outcome, grouped_buildings) IN
       /\ grouped_buildings' = it.grouped
       /\ fetched' = IF IsRequestException(outcome) THEN fetched
                     ELSE fetched \o Returned(outcome)
       /\ IF it.raised
          THEN /\ response' = Aborted.response
               /\ ret' = Aborted.ret
               /\ pc' = "done"
               /\ UNCHANGED idx
          ELSE IF NextIdentifier(idx, outcome) > Len(cadastral_parcel_id_list)
          THEN /\ response' = Built(it.grouped).response
               /\ ret' = Built(it.grouped).ret
               /\ pc' = "done"
               /\ UNCHANGED idx
          ELSE /\ idx' = NextIdentifier(idx, outcome)
               /\ UNCHANGED <<response, ret, pc>>
    /\ UNCHANGED <<op, args, lat_val, lon_val, permits_data, parcel_data,
                   cadastral_parcel_id, cadastral_parcel_id_list>>

(***************************************************************************)
(* Direct calls of the utility functions.                                  *)
(***************************************************************************)
IdentifierLists == UNION {Orderings(S) : S \in SUBSET Identifiers}

\* get_building_data_by_cadastral_parcel_id(cadastral_parcel_id_list)
CallGetBuildingData(ids) ==
    /\ Begin("get_building_data_by_cadastral_parcel_id", ids)
    /\ NoCoordinates
    /\ calls' = <<>>
    /\ response' = NoResponse
    /\ cadastral_parcel_id_list' = ids
    /\ idx' = 1
    /\ IF ids = <<>>
       THEN ret' = Return(<<>>) /\ pc' = "done"
       ELSE ret' = NoReturn /\ pc' = "build_loop"

\* fetch_parcel_by_id(parcel_id)
CallFetchParcelById(file, parcel_id) ==
    /\ Begin("fetch_parcel_by_id", [file |-> file, parcel_id |-> parcel_id])
    /\ NoCoordinates
    /\ NoLoop
    /\ calls' = <<>>
    /\ response' = NoResponse
    /\ ret' = Return(fetch_parcel_by_id(file, parcel_id))
    /\ pc' = "done"

\* get_parcel_data(lat, lon)
CallGetParcelData(outcome) ==
    /\ Begin("get_parcel_data", [outcome |-> outcome])
    /\ NoCoordinates
    /\ NoLoop
    /\ calls' = <<Call("reverse", "", outcome)>>
    /\ response' = NoResponse
    /\ ret' = get_parcel_data(outcome)
    /\ pc' = "done"

\* get_building_footprints(lat, lon)
CallGetBuildingFootprints(file) ==
    /\ Begin("get_building_footprints", [file |-> file])
    /\ NoCoordinates
    /\ NoLoop
    /\ calls' = <<>>
    /\ response' = NoResponse
    /\ ret' = Return(get_building_footprints(file))
    /\ pc' = "done"

\* get_construction_year(attributes)
YearValues == {PyMissing, PyNone, PyInt(0), PyInt(1900), PyStr(""), PyStr("1900")}
CodeValues ==
    {PyMissing, PyNone} \cup {PyInt(n) : n \in 0..13} \cup {PyInt(99), PyInt(150)}

CallGetConstructionYear(attributes) ==
    /\ Begin("get_construction_year", attributes)
    /\ NoCoordinates
    /\ NoLoop
    /\ calls' = <<>>
    /\ response' = NoResponse
    /\ ret' = Return(PyStr(get_construction_year(attributes)))
    /\ pc' = "done"

(***************************************************************************)
(* The proxy handlers: districts, streets, addresses, street history.      *)
(***************************************************************************)
\* str(n) of a non-negative integer, as its characters
RECURSIVE DecimalDigits(_)
DecimalDigits(n) ==
    IF n < 10 THEN <<ToString(n)>>
    ELSE DecimalDigits(n \div 10) \o <<ToString(n % 10)>>

\* s[-2:]
LastTwo(s) == IF Len(s) <= 2 THEN s ELSE SubSeq(s, Len(s) - 1, Len(s))

\* f"{n}": the digits without padding
Format02d_Unpadded(n) == DecimalDigits(n)

\* f"{n:02d}": at least two digits, zero-padded
Format02d(n) ==
    LET d == DecimalDigits(n) IN IF Len(d) < 2 THEN <<"0">> \o d ELSE d

\* int(str(district_code)[-2:])
LastTwoDigits(district_code) == DigitsValue(LastTwo(DecimalDigits(district_code)))

\* The threshold from which a district code is read as a postal code
PostalCodeFrom == 75000

\* formatted_district of get_streets_by_district_code
StreetsDistrict(district_code) ==
    IF district_code >= PostalCodeFrom
    THEN Join(Format02d(LastTwoDigits(district_code)) \o <<"e">>)
    ELSE Join(Format02d(district_code) \o <<"e">>)

\* formatted_district of get_street_history
HistoryDistrict(district_code) ==
    Join(Format02d(LastTwoDigits(district_code)) \o <<"e">>)

\* The values of <int:district_code>: arrondissement numbers, postal codes
\* and numbers that are neither
DistrictCodes ==
    (0..MaxDistrict) \cup {99, 100, 113, 74999, 75100, 75113}
        \cup {PostalCodeFrom + k : k \in 0..MaxDistrict}

ProxyJson == [records |-> PyInt(1)]
ProxyOutcomes == Failures \cup {Ok(ProxyJson)}

\* The except clause of the three plain proxies
ProxyResponse(outcome) ==
    IF outcome.kind = "ok" THEN Response(outcome.body, HTTP_200_OK)
    ELSE Response([error |-> Msg("%s", ErrStr(outcome))],
                  HTTP_500_INTERNAL_SERVER_ERROR)

Proxy(name, a, call, outcome) ==
    /\ Begin(name, a)
    /\ NoCoordinates
    /\ NoLoop
    /\ calls' = <<Call(call.api, call.arg, outcome)>>
    /\ ret' = NoReturn
    /\ pc' = "done"

GetDistrictsList(outcome) ==
    /\ Proxy("get_districts_list", <<>>, [api |-> "districts", arg |-> ""], outcome)
    /\ response' = ProxyResponse(outcome)

GetStreetsByDistrictCode(district_code, outcome) ==
    /\ Proxy("get_streets_by_district_code", [district_code |-> district_code],
             [api |-> "streets", arg |-> StreetsDistrict(district_code)], outcome)
    /\ response' = ProxyResponse(outcome)

\* Street names: a digit, a space, an accented letter
StreetChars == {"1", " ", "e'"}
StreetNames == SeqsUpTo(StreetChars, 1, MaxNameLen)

GetAddressesData(street_name, outcome) ==
    /\ Proxy("get_addresses_data", [street_name |-> street_name],
             [api |-> "addresses", arg |-> Join(street_name)], outcome)
    /\ response' = ProxyResponse(outcome)

\* street_name.split(" ")[0] and " ".join(street_name.split(" ")[1:])
HasSpace(s) == \E k \in 1..Len(s) : s[k] = " "
FirstSpace(s) == CHOOSE k \in 1..Len(s) : s[k] = " " /\ \A j \in 1..(k - 1) : s[j] # " "
FirstPart(s) == IF HasSpace(s) THEN SubSeq(s, 1, FirstSpace(s) - 1) ELSE s
AfterFirstPart(s) == IF HasSpace(s) THEN SubSeq(s, FirstSpace(s) + 1, Len(s)) ELSE <<>>
\* str.isdigit()
IsDigit(s) == s # <<>> /\ \A k \in 1..Len(s) : s[k] \in Digits
\* str.upper() and remove_accents, character by character ("e'" is e-acute)
UpperChar(c) == IF c = "e'" THEN "E'" ELSE c
remove_accents(s) == [k \in DOMAIN s |-> IF s[k] = "E'" THEN "E" ELSE s[k]]
Upper(s) == [k \in DOMAIN s |-> UpperChar(s[k])]

\* The typo the history API is searched for
SearchedName(street_name) ==
    LET stripped == IF IsDigit(FirstPart(street_name))
                    THEN AfterFirstPart(street_name) ELSE street_name
    IN Join(remove_accents(Upper(stripped)))

HistoryRecord(typo) == [typo |-> typo, historique |-> PyMissing]
GoodRecord == HistoryRecord(PyStr("RUE X"))
HistoryBodies ==
    {[total_count |-> PyInt(0)], [results |-> <<>>], [results |-> <<GoodRecord>>],
     [results |-> <<HistoryRecord(PyMissing)>>], [results |-> <<HistoryRecord(PyNone)>>],
     [results |-> <<GoodRecord, GoodRecord>>]}
HistoryOutcomes == Failures \cup {Ok(b) : b \in HistoryBodies}

\* str.title()
Title(s) == IF s = "RUE X" THEN "Rue X" ELSE s

HistoryEntry(formatted_district, record) ==
    [district |-> formatted_district,
     street_name |-> Title(GetDefault(record.typo, PyStr("Unknown")).s),
     historical_reference |->
         GetDefault(record.historique, PyStr("No history available")),
     opening_reference |-> PyStr("No opening reference available"),
     sanitation_reference |-> PyStr("No sanitation reference available"),
     original_reference |-> PyStr("Unknown")]

\* response.json().get("results", [])
Records(body) == IF "results" \in DOMAIN body THEN body.results ELSE <<>>

HistoryResponse(formatted_district, outcome) ==
    IF outcome.kind # "ok"
    THEN Response([error |-> Msg("Failed to fetch data from external API", ""),
                   details |-> Msg("%s", ErrStr(outcome))],
                  HTTP_500_INTERNAL_SERVER_ERROR)
    ELSE LET records == Records(outcome.body) IN
         IF records = <<>>
         THEN Response([message |-> Msg("No history found for this street.", "")],
                       HTTP_404_NOT_FOUND)
         ELSE IF \E k \in 1..Len(records) : records[k].typo.t = "none"
         THEN ExceptionResponse("AttributeError", Msg("", ""))
         ELSE ResponseList([k \in DOMAIN records |->
                               HistoryEntry(formatted_district, records[k])],
                           HTTP_200_OK)

GetStreetHistory(district_code, street_name, outcome) ==
    /\ Proxy("get_street_history",
             [district_code |-> district_code, street_name |-> street_name],
             [api |-> "history",
              arg |-> SearchedName(street_name) \o "@" \o HistoryDistrict(district_code)],
             outcome)
    /\ response' = HistoryResponse(HistoryDistrict(district_code), outcome)

(***************************************************************************)
(* The specification.                                                      *)
(***************************************************************************)
\* Every action draws its inputs (path parameters, upstream outcomes, file
\* contents) once its guard holds.
StartPlanningPermits ==
    pc = "idle" /\ \E lat, lon \in PathSegments : GetPlanningPermits(lat, lon)
PermitsStep ==
    pc = "fetch_permits_data" /\ \E outcome \in PermitsOutcomes : FetchPermitsData(outcome)
ParcelStep ==
    pc = "get_parcel_data" /\ \E outcome \in ReverseOutcomes : GetParcelData(outcome)
ParcelFileStep ==
    pc = "fetch_parcel_by_id" /\ \E file \in ParcelFiles : FetchParcelById(file)
CadastralStep ==
    /\ pc = "get_cadastral_parcel_id"
    /\ \E outcome \in BoxOutcomes :
         \E order \in Orderings(IdSet(Returned(outcome))) :
             GetCadastralParcelId(outcome, order)
BuildingsStep ==
    pc = "build_loop" /\ \E outcome \in BuildOutcomes : QueryBuildings(outcome)
StartGetBuildingData ==
    pc = "idle" /\ \E ids \in IdentifierLists : CallGetBuildingData(ids)
StartFetchParcelById ==
    /\ pc = "idle"
    /\ \E file \in ParcelFiles, parcel_id \in ParcelIds \cup {PyNone} :
         CallFetchParcelById(file, parcel_id)
StartGetParcelData ==
    pc = "idle" /\ \E outcome \in ReverseOutcomes : CallGetParcelData(outcome)
StartGetBuildingFootprints ==
    pc = "idle" /\ \E file \in BuildingFiles : CallGetBuildingFootprints(file)
StartGetConstructionYear ==
    /\ pc = "idle"
    /\ \E an_const \in YearValues, c_perconst \in CodeValues :
         CallGetConstructionYear(Attributes(an_const, c_perconst, PyMissing, PyMissing))
StartDistrictsList ==
    pc = "idle" /\ \E outcome \in ProxyOutcomes : GetDistrictsList(outcome)
StartStreetsByDistrictCode ==
    /\ pc = "idle"
    /\ \E district_code \in DistrictCodes, outcome \in ProxyOutcomes :
         GetStreetsByDistrictCode(district_code, outcome)
StartAddressesData ==
    /\ pc = "idle"
    /\ \E street_name \in StreetNames, outcome \in ProxyOutcomes :
         GetAddressesData(street_name, outcome)
StartStreetHistory ==
    /\ pc = "idle"
    /\ \E district_code \in DistrictCodes, street_name \in StreetNames,
          outcome \in HistoryOutcomes :
         GetStreetHistory(district_code, street_name, outcome)

Next ==
    \/ StartPlanningPermits
    \/ PermitsStep
    \/ ParcelStep
    \/ ParcelFileStep
    \/ CadastralStep
    \/ BuildingsStep
    \/ StartGetBuildingData
    \/ StartFetchParcelById
    \/ StartGetParcelData
    \/ StartGetBuildingFootprints
    \/ StartGetConstructionYear
    \/ StartDistrictsList
    \/ StartStreetsByDistrictCode
    \/ StartAddressesData
    \/ StartStreetHistory

Spec == Init /\ [][Next]_vars

(***************************************************************************)
(* Properties.                                                             *)
(***************************************************************************)
InPermits == op = "get_planning_permits"
ByIdCalls == {k \in 1..Len(calls) : calls[k].api = "footprints_by_id"}

\* C1: a permits request whose lat and lon parse and whose bounding-box
\* query returns at least one feature carrying n_sq_pc ends in HTTP 200 with
\* the keys permits, parcel_data and building_all_data, after the identifier
\* loop ran over the list get_cadastral_parcel_id returned.
C1_MergedPayload ==
    (/\ InPermits /\ pc = "done"
     /\ cadastral_parcel_id.t = "list" /\ cadastral_parcel_id.ids # <<>>)
    => /\ response.status = HTTP_200_OK
       /\ response.kind = "object"
       /\ DOMAIN response.body = {"permits", "parcel_data", "building_all_data"}
       /\ cadastral_parcel_id_list = cadastral_parcel_id.ids
       /\ Cardinality(ByIdCalls) = Len(cadastral_parcel_id.ids)

\* C2: a permits request whose lat or lon is not a number ends in HTTP 400
\* with the body {"error": "Invalid latitude or longitude format."}.
C2_InvalidFormatBody ==
    (/\ InPermits /\ pc = "done"
     /\ (~IsFloatLiteral(args.lat) \/ ~IsFloatLiteral(args.lon)))
    => response = Response([error |-> Msg("Invalid latitude or longitude format.", "")],
                           HTTP_400_BAD_REQUEST)

\* C3: get_parcel_data returns the properties.id of the first feature, in
\* list order, whose distance is the minimum over the features that have a
\* distance; features without a distance are never selected, a later tie
\* never replaces the earlier feature, and without any distance the
\* parcel_id is null.
C3_FirstMinimum ==
    (/\ InPermits /\ pc = "fetch_parcel_by_id"
     /\ "features" \in DOMAIN parcel_data.parcel_data)
    => LET fs == parcel_data.parcel_data.features
           dist(k) == fs[k].properties.distance
           measured == {k \in 1..Len(fs) : dist(k).t = "int"}
       IN IF measured = {} THEN parcel_data.parcel_id = PyNone
          ELSE \E k \in measured :
                  /\ \A j \in measured : dist(k).i <= dist(j).i
                  /\ \A j \in measured : j < k => dist(j).i > dist(k).i
                  /\ parcel_data.parcel_id = fs[k].properties.id

\* C3 witness: two features tie at the minimum with different ids and the
\* earlier one was selected.
C3_Witness ==
    /\ InPermits /\ pc = "fetch_parcel_by_id"
    /\ "features" \in DOMAIN parcel_data.parcel_data
    /\ parcel_data.parcel_data.features =
          <<Located(PyInt(41), PyStr("P1")), Located(PyInt(41), PyStr("P2"))>>
    /\ parcel_data.parcel_id = PyStr("P1")

\* The bounding-box query came back with no features (or no features key)
EmptyBox ==
    \E k \in 1..Len(calls) :
        calls[k].api = "footprints_bbox" /\ calls[k].kind = "ok" /\ calls[k].count = 0

\* C4: when the bounding-box query returns zero features (or no features
\* key), the lookup returns {error: "No buildings found at this location."}
\* and no per-identifier query is issued in that request.
C4_NoFollowUp ==
    (InPermits /\ EmptyBox)
    => /\ cadastral_parcel_id = ErrorDict(Msg("No buildings found at this location.", ""))
       /\ ByIdCalls = {}

\* C4 witness: a finished request whose bounding-box query was empty.
C4_Witness == InPermits /\ pc = "done" /\ EmptyBox /\ Len(calls) = 3

InBuildingData == op = "get_building_data_by_cadastral_parcel_id"

\* The grouping holds exactly the summaries of the features fs: every
\* feature's summary under its construction year, in the order returned,
\* and nothing else.
ExactGrouping(grouped, fs) ==
    LET labelled == [k \in DOMAIN fs |->
                        [year |-> get_construction_year(fs[k].attributes),
                         summary |-> Summary(fs[k])]]
    IN /\ \A k \in DOMAIN fs : HasYear(grouped, labelled[k].year)
       /\ \A a, b \in DOMAIN grouped : grouped[a].year = grouped[b].year => a = b
       /\ \A e \in DOMAIN grouped :
             LET OfYear(x) == x.year = grouped[e].year
                 mine == SelectSeq(labelled, OfYear)
             IN /\ mine # <<>>
                /\ grouped[e].buildings = [k \in DOMAIN mine |-> mine[k].summary]

LabelOfCode(code) ==
    IF code.t = "int" /\ code.i \in PeriodCodes THEN period_mapping(code.i)
    ELSE "Year Unknown"

\* C6 (as claimed): get_construction_year returns the string form of
\* an_const whenever an_const is present and non-empty, and otherwise the
\* label of c_perconst from the table, "Year Unknown" for any other or
\* missing code.
C6_PresentNonEmpty ==
    (op = "get_construction_year" /\ pc = "done")
    => LET an == args.an_const
           given == an.t \notin {"missing", "none"} /\ ~(an.t = "str" /\ an.s = "")
       IN ret.val = PyStr(IF given THEN Str(an) ELSE LabelOfCode(args.c_perconst))

\* C6 (amended): get_construction_year returns the string form of an_const
\* whenever an_const is present and truthy (not null, not the empty string,
\* not the number 0), and otherwise the label of c_perconst from the table:
\* code 7 gives "from 1968 to 1975", a code outside 1,2,3,5..12,99 or a
\* missing code gives "Year Unknown".
C6_PresentTruthy ==
    (op = "get_construction_year" /\ pc = "done")
    => LET an == args.an_const
           code == args.c_perconst
           given == (an.t = "int" /\ an.i # 0) \/ (an.t = "str" /\ an.s # "")
       IN /\ ret.val = PyStr(IF given THEN Str(an) ELSE LabelOfCode(code))
          /\ (~given /\ code = PyInt(7)) => ret.val = PyStr("from 1968 to 1975")
          /\ (~given /\ code \in {PyInt(4), PyInt(150), PyInt(99), PyMissing, PyNone})
                => ret.val = PyStr("Year Unknown")
          /\ (~given /\ code.t = "int" /\ code.i \in PeriodCodes \ {99})
                => ret.val # PyStr("Year Unknown")

\* C6 witness: an exact year of 0 with period code 7 is labelled by the code.
C6_Witness ==
    /\ op = "get_construction_year" /\ pc = "done"
    /\ args.an_const = PyInt(0)
    /\ args.c_perconst = PyInt(7)
    /\ ret.val = PyStr("from 1968 to 1975")

\* Two digits followed by "e"
TwoDigits(n) == ToString(n \div 10) \o ToString(n % 10) \o "e"
TwoDigitForms == {a \o b \o "e" : a, b \in Digits}
InStreets == op = "get_streets_by_district_code" /\ pc = "done"

\* C7 (as claimed): the district the streets endpoint sends upstream is
\* exactly two zero-padded digits followed by "e": the last two digits of a
\* code >= 75000, the code itself otherwise.
C7_TwoDigits ==
    InStreets
    => LET code == args.district_code IN
       /\ calls[1].arg \in TwoDigitForms
       /\ calls[1].arg = TwoDigits(IF code >= 75000 THEN code % 100 ELSE code)

\* C7 (amended): the district sent upstream is the last two digits of a code
\* >= 75000 and the code itself zero-padded to two digits for a code below
\* 100, followed by "e"; a code from 100 to 74999 is sent with all its
\* digits (113 gives "113e").
C7_AtLeastTwoDigits ==
    InStreets
    => LET code == args.district_code IN
       /\ calls[1].api = "streets"
       /\ code >= 75000 => calls[1].arg = TwoDigits(code % 100)
       /\ code < 100 => calls[1].arg = TwoDigits(code)
       /\ (code >= 100 /\ code < 75000) => calls[1].arg = ToString(code) \o "e"
       /\ (code >= 75000 \/ code < 100) <=> calls[1].arg \in TwoDigitForms

\* C7 witness: the postal code 75013 was sent as "13e".
C7_Witness == InStreets /\ args.district_code = 75013 /\ calls[1].arg = "13e"

\* C8: fetch_parcel_by_id returns the first feature in file order whose id
\* equals parcel_id, and the "No matching parcel" error when there is none;
\* a null parcel_id always yields the error, never a feature.
C8_FirstMatchOrError ==
    (op = "fetch_parcel_by_id" /\ pc = "done" /\ args.file.exists)
    => LET fs == args.file.features
           wanted == args.parcel_id
           matches == {k \in 1..Len(fs) : fs[k].id = wanted}
           notfound == [error |-> Msg("No matching parcel found for ID %s.", Str(wanted))]
       IN IF wanted = PyNone \/ matches = {} THEN ret.val = notfound
          ELSE \E k \in matches : (\A j \in matches : k <= j) /\ ret.val = fs[k]

\* C9: get_building_footprints returns the first feature in file order whose
\* geometry intersects the point or the buffer around it (an earlier feature
\* that only touches the buffer wins over a later one on the point), and the
\* "No matching building" error exactly when no feature does.
C9_FirstHit ==
    (op = "get_building_footprints" /\ pc = "done" /\ args.file.exists)
    => LET fs == args.file.features
           hits == {k \in 1..Len(fs) : fs[k].hit \in {"point", "buffer"}}
           nomatch == [error |-> Msg("No matching building found at this location.", "")]
       IN /\ hits = {} <=> ret.val = nomatch
          /\ hits # {} => \E k \in hits : (\A j \in hits : k <= j) /\ ret.val = fs[k]

\* C9 witness: a feature touching only the buffer precedes one on the point
\* and is the one returned.
C9_Witness ==
    /\ op = "get_building_footprints" /\ pc = "done"
    /\ args.file = File(<<Building("A", "buffer"), Building("B", "point")>>)
    /\ ret.val = Building("A", "buffer")

Handlers ==
    {"get_districts_list", "get_streets_by_district_code", "get_addresses_data",
     "get_planning_permits", "get_street_history"}

\* C10: every non-2xx response of the five handlers is a JSON object with an
\* error key, the 404 of the history endpoint included.
C10_ErrorKey ==
    (op \in Handlers /\ pc = "done" /\ response.status \notin 200..299)
    => /\ response.kind = "object"
       /\ "error" \in DOMAIN response.body

\* A feature whose distance is neither a number nor null
Malformed(features) ==
    \E k \in 1..Len(features) :
        features[k].properties.distance.t \notin {"none", "int"}

\* C11: get_parcel_data never raises to its caller: after a transport
\* failure, a non-2xx status, an empty body, a body without a features key
\* or a malformed features list it returns a result whose parcel_id is null,
\* with the error message or the raw response in the second field.
C11_NeverRaises ==
    (op = "get_parcel_data" /\ pc = "done")
    => LET outcome == args.outcome
           body == outcome.body
           failed == outcome.kind # "ok"
           unusable == \/ failed
                       \/ DOMAIN body = {}
                       \/ "features" \notin DOMAIN body
                       \/ Malformed(body.features)
       IN /\ ~ret.raised
          /\ unusable =>
                /\ ret.val.parcel_id = PyNone
                /\ ret.val.parcel_data =
                     IF failed
                     THEN [error |-> Msg("Failed to fetch parcel data: %s",
                                         ErrStr(outcome))]
                     ELSE body

\* The upstream calls of a permits request, in order, before the loop
Stages == <<"permits", "reverse", "footprints_bbox">>

\* The calls from position first on are the queries for the leading
\* identifiers of the list, one each and in list order
OneQueryEach(first) ==
    /\ Len(calls) - first + 1 <= Len(cadastral_parcel_id_list)
    /\ \A k \in first..Len(calls) :
          /\ calls[k].api = "footprints_by_id"
          /\ calls[k].arg = Str(cadastral_parcel_id_list[k - first + 1])

\* C12: no upstream call is retried.  In a permits request the permits API,
\* the reverse-geocoding API and the bounding-box query are each called at
\* most once, in that order, a failed call included, and each call is over
\* before the next step starts; the identifier loop, in a request or called
\* directly, queries each element of its list at most once, in list order,
\* after the bounding-box query.
C12_NoRetry ==
    /\ InPermits =>
          /\ \A k \in 1..Len(calls) : k <= 3 => calls[k].api = Stages[k]
          /\ OneQueryEach(4)
          /\ pc = "fetch_permits_data" => Len(calls) = 0
          /\ pc = "get_parcel_data" => Len(calls) = 1
          /\ pc \in {"fetch_parcel_by_id", "get_cadastral_parcel_id"} => Len(calls) = 2
          /\ pc = "build_loop" => Len(calls) = 3 + idx - 1
    /\ op = "get_building_data_by_cadastral_parcel_id" =>
          /\ OneQueryEach(1)
          /\ pc = "build_loop" => Len(calls) = idx - 1
          /\ (pc = "done" /\ ~ret.raised) => Len(calls) = Len(cadastral_parcel_id_list)

\* C12 witness: a finished permits request whose permits and
\* reverse-geocoding calls both failed and whose three calls were made once
\* each, in order.
C12_Witness ==
    /\ InPermits /\ pc = "done"
    /\ Len(calls) = 3
    /\ calls[1].api = "permits" /\ calls[1].kind = "transport"
    /\ calls[2].api = "reverse" /\ calls[2].kind = "http"
    /\ calls[3].api = "footprints_bbox"

====
